---------------------------- MODULE Spec2Model ----------------------------
(***************************************************************************)
(* Finite automata (DFA, NFA, NFA-e), their structural validation, string  *)
(* acceptance, epsilon elimination, subset construction and the Thompson   *)
(* construction of the regular-expression class.                           *)
(*                                                                         *)
(* An automaton is the five fields of AutomatonBase.  `transitions` is the *)
(* Python dict of dicts: a function whose DOMAIN is the set of keys that   *)
(* are present, each value a function from the symbols present to the set *)
(* of destination states.  `dict.get(k, {})` is TGet.                      *)
(***************************************************************************)
EXTENDS Naturals, Sequences, FiniteSets, TLC

VARIABLES
    pc,              \* position of the caller: "args", "failed", "constructed", "to_dfa", "returned"
    cls,             \* class of the automaton `self`: "DFA", "NFA", "NFAE" ("" before the call)
    states,          \* self.states
    alphabet,        \* self.alphabet
    transitions,     \* self.transitions
    start_state,     \* self.start_state
    accept_states,   \* self.accept_states
    error,           \* the exception that ended the last call ("" when it returned)
    call,            \* the last method called on self ("" before any call)
    input_string,    \* argument of the last validate_string call
    returned,        \* what the last call returned or raised
    dfa_states,      \* to_dfa: the list dfa_states
    dfa_transitions, \* to_dfa: the dict dfa_transitions
    unmarked_states, \* to_dfa: the worklist
    iterations,      \* to_dfa: the composites popped so far, in order
    pattern,         \* RegularExpression.pattern
    index,           \* _thompson_construct: the characters of the pattern consumed
    stack,           \* _thompson_construct: the operand stack of fragments
    unique_id,       \* _thompson_construct: the next value of the counter
    operands         \* _thompson_construct: the fragments the last iteration popped

vars == <<pc, cls, states, alphabet, transitions, start_state, accept_states,
          error, call, input_string, returned, dfa_states, dfa_transitions,
          unmarked_states, iterations, pattern, index, stack, unique_id,
          operands>>

regexVars == <<pattern, index, stack, unique_id, operands>>

selfVars == <<cls, states, alphabet, transitions, start_state, accept_states>>
toDfaVars == <<dfa_states, dfa_transitions, unmarked_states, iterations>>

(***************************************************************************)
(* Bounds of the model.                                                    *)
(***************************************************************************)
MaxEdges == 2        \* transitions (source, symbol, destination) given to a constructor
MaxLen == 2          \* length of the strings given to validate_string
MaxPattern == 4      \* length of the patterns given to RegularExpression

EPS == "eps"         \* the reserved symbol 'ε'

StateIds == {"q0", "q1", "q2"}
Symbols == {"a", "b"}
InputSymbols == {"a", "b"}

(***************************************************************************)
(* Python containers.                                                      *)
(***************************************************************************)
EmptyDict == [x \in {} |-> {}]

\* dict.get(key, {})
TGet(d, key) == IF key \in DOMAIN d THEN d[key] ELSE EmptyDict

\* self.transitions.get(state, {}).get(symbol, set())
Dest(tr, state, symbol) ==
    IF symbol \in DOMAIN TGet(tr, state) THEN TGet(tr, state)[symbol] ELSE {}

\* Iteration order of a set: the members listed in `ord` first, in that order,
\* then the others in a fixed order.  `ord` stands for the hash order.
RECURSIVE Rest(_)
Rest(S) ==
    IF S = {} THEN <<>>
    ELSE LET x == CHOOSE y \in S : TRUE IN <<x>> \o Rest(S \ {x})

RECURSIVE Iter(_, _)
Iter(S, ord) ==
    IF ord = <<>> THEN Rest(S)
    ELSE IF Head(ord) \in S
         THEN <<Head(ord)>> \o Iter(S \ {Head(ord)}, Tail(ord))
         ELSE Iter(S, Tail(ord))

RECURSIVE Perms(_)
Perms(S) ==
    IF S = {} THEN {<<>>}
    ELSE UNION {{<<x>> \o p : p \in Perms(S \ {x})} : x \in S}

Orders == Perms(StateIds)

(***************************************************************************)
(* AutomatonBase._validate_automaton                                       *)
(***************************************************************************)

\* Lines 40-48: the errors the loop over the transitions can raise.  The
\* loop raises at the first offending item in dict order, so each offending
\* item's error is a possible result.
TransitionErrors(st, al, tr) ==
    {"UndeclaredState" : s \in {s \in DOMAIN tr : s \notin st}}
    \cup {"UndeclaredSymbol" :
            p \in {p \in UNION {{<<s, x>> : x \in DOMAIN tr[s]} : s \in DOMAIN tr \cap st} :
                      p[2] \notin al /\ p[2] # EPS}}
    \cup {"UndeclaredState" :
            p \in {p \in UNION {{<<s, x>> : x \in DOMAIN tr[s]} : s \in DOMAIN tr \cap st} :
                      (p[2] \in al \/ p[2] = EPS) /\ ~(tr[p[1]][p[2]] \subseteq st)}}

\* A usage check that does not count the start state as used
UsedStates_without_start(tr, ss, ac) ==
    ac \cup UNION {UNION {tr[s][x] : x \in DOMAIN tr[s]} : s \in DOMAIN tr}

\* Lines 51-54: used_states
UsedStates(tr, ss, ac) ==
    {ss} \cup ac \cup UNION {UNION {tr[s][x] : x \in DOMAIN tr[s]} : s \in DOMAIN tr}

\* Line 81-82: stack.extend(transitions) for every symbol of the state
RECURSIVE ExtendAll(_, _, _)
ExtendAll(d, syms, ord) ==
    IF syms = <<>> THEN <<>>
    ELSE Iter(d[Head(syms)], ord) \o ExtendAll(d, Tail(syms), ord)

\* A traversal that follows the transitions on the symbols of the alphabet and
\* not the epsilon transitions
RECURSIVE ReachLoop_no_epsilon(_, _, _, _)
ReachLoop_no_epsilon(tr, reachable, stk, ord) ==
    IF stk = <<>> THEN reachable
    ELSE LET state == stk[Len(stk)]
             popped == SubSeq(stk, 1, Len(stk) - 1)
         IN IF state \notin reachable
            THEN ReachLoop_no_epsilon(tr, reachable \cup {state},
                     popped \o ExtendAll(TGet(tr, state),
                                         Iter(DOMAIN TGet(tr, state) \ {EPS}, ord), ord),
                     ord)
            ELSE ReachLoop_no_epsilon(tr, reachable, popped, ord)

\* Lines 77-82: the while loop of _find_reachable_states
RECURSIVE ReachLoop(_, _, _, _)
ReachLoop(tr, reachable, stk, ord) ==
    IF stk = <<>> THEN reachable
    ELSE LET state == stk[Len(stk)]
             popped == SubSeq(stk, 1, Len(stk) - 1)
         IN IF state \notin reachable
            THEN ReachLoop(tr, reachable \cup {state},
                           popped \o ExtendAll(TGet(tr, state),
                                               Iter(DOMAIN TGet(tr, state), ord), ord),
                           ord)
            ELSE ReachLoop(tr, reachable, popped, ord)

_find_reachable_states(tr, ss, ord) == ReachLoop(tr, {}, <<ss>>, ord)

\* Lines 92-105: dfs(state, path) with the shared `visited`; the result is the
\* returned boolean with the two sets as the call leaves them.
RECURSIVE dfs(_, _, _, _, _)
RECURSIVE dfsLoop(_, _, _, _, _, _)

\* A dfs that tests `visited` before `path`: a state on the current path is
\* visited, so the cycle is not seen
dfs_visited_first(tr, ord, state, visited, path) ==
    IF state \in visited THEN [found |-> FALSE, visited |-> visited, path |-> path]
    ELSE IF state \in path THEN [found |-> TRUE, visited |-> visited, path |-> path]
    ELSE dfsLoop(tr, ord, state, Iter(Dest(tr, state, EPS), ord),
                 visited \cup {state}, path \cup {state})

dfs(tr, ord, state, visited, path) ==
    IF state \in path THEN [found |-> TRUE, visited |-> visited, path |-> path]
    ELSE IF state \in visited THEN [found |-> FALSE, visited |-> visited, path |-> path]
    ELSE dfsLoop(tr, ord, state, Iter(Dest(tr, state, EPS), ord),
                 visited \cup {state}, path \cup {state})

dfsLoop(tr, ord, state, todo, visited, path) ==
    IF todo = <<>>
    THEN [found |-> FALSE, visited |-> visited, path |-> path \ {state}]
    ELSE LET r == dfs(tr, ord, Head(todo), visited, path)
         IN IF r.found THEN r
            ELSE dfsLoop(tr, ord, state, Tail(todo), r.visited, r.path)

\* Lines 107-111: one dfs per declared state, each with a fresh path
RECURSIVE RootLoop(_, _, _, _)
RootLoop(tr, ord, roots, visited) ==
    IF roots = <<>> THEN FALSE
    ELSE LET r == dfs(tr, ord, Head(roots), visited, {})
         IN IF r.found THEN TRUE
            ELSE RootLoop(tr, ord, Tail(roots), r.visited)

_has_circular_epsilon_transitions(st, tr, ord) == RootLoop(tr, ord, Iter(st, ord), {})

\* Line 66: the guard of the circular-epsilon check
EpsilonPresent(al, tr) == EPS \in al \/ \E s \in DOMAIN tr : EPS \in DOMAIN tr[s]

\* Lines 59-68: the two traversals, under one iteration order
Traversals(st, al, tr, ss, ord) ==
    IF st \ _find_reachable_states(tr, ss, ord) # {} THEN "UnreachableState"
    ELSE IF EpsilonPresent(al, tr) /\ _has_circular_epsilon_transitions(st, tr, ord)
         THEN "CircularEpsilon"
    ELSE "ok"

\* A validation that refuses an alphabet holding the epsilon symbol
_validate_automaton_epsilon_reserved(st, al, tr, ss, ac, ords) ==
    IF ss \notin st THEN {"InvalidStartState"}
    ELSE IF ~(ac \subseteq st) THEN {"InvalidAcceptStates"}
    ELSE IF EPS \in al THEN {"UndeclaredSymbol"}
    ELSE IF TransitionErrors(st, al, tr) # {} THEN TransitionErrors(st, al, tr)
    ELSE IF st \ UsedStates(tr, ss, ac) # {} THEN {"UnusedState"}
    ELSE {Traversals(st, al, tr, ss, ord) : ord \in ords}

\* Lines 28-68: the set of results of the validation ("ok": no error raised),
\* over the iteration orders `ords` of the sets.
_validate_automaton(st, al, tr, ss, ac, ords) ==
    IF ss \notin st THEN {"InvalidStartState"}
    ELSE IF ~(ac \subseteq st) THEN {"InvalidAcceptStates"}
    ELSE IF TransitionErrors(st, al, tr) # {} THEN TransitionErrors(st, al, tr)
    ELSE IF st \ UsedStates(tr, ss, ac) # {} THEN {"UnusedState"}
    ELSE {Traversals(st, al, tr, ss, ord) : ord \in ords}

\* dfa.py lines 17-25
_validate_dfa(tr) ==
    IF \E s \in DOMAIN tr : \E x \in DOMAIN tr[s] : Cardinality(tr[s][x]) > 1
    THEN "NonDeterministicTransition" ELSE "ok"

\* __init__ of the three classes: the validation of the base class, then for
\* a DFA the determinism check.
ConstructorResults(c, st, al, tr, ss, ac, ords) ==
    LET base == _validate_automaton(st, al, tr, ss, ac, ords)
    IN IF c = "DFA"
       THEN (base \ {"ok"}) \cup (IF "ok" \in base THEN {_validate_dfa(tr)} ELSE {})
       ELSE base

(***************************************************************************)
(* String acceptance.  A call returns "True" or "False" or ends in an      *)
(* exception: "UnknownSymbol" (the ValueError of the alphabet check),      *)
(* "KeyError", "StopIteration".                                            *)
(***************************************************************************)
Bool(b) == IF b THEN "True" ELSE "False"

\* An epsilon closure of one step: the states added are not explored further
ClosureLoop_one_step(tr, closure, stk, ord) ==
    closure \cup UNION {Dest(tr, stk[i], EPS) : i \in 1..Len(stk)}

\* nfa_e.py lines 28-33: the while loop of _epsilon_closure
RECURSIVE ClosureLoop(_, _, _, _)
ClosureLoop(tr, closure, stk, ord) ==
    IF stk = <<>> THEN closure
    ELSE LET current == stk[Len(stk)]
             popped == SubSeq(stk, 1, Len(stk) - 1)
             fresh == SelectSeq(Iter(Dest(tr, current, EPS), ord),
                                LAMBDA n : n \notin closure)
         IN ClosureLoop(tr, closure \cup Dest(tr, current, EPS), popped \o fresh, ord)

\* A closure that starts from the empty set instead of a copy of S
_epsilon_closure_without_S(tr, S, ord) == ClosureLoop(tr, {}, Iter(S, ord), ord)

\* nfa_e.py lines 18-35
_epsilon_closure(tr, S, ord) == ClosureLoop(tr, S, Iter(S, ord), ord)

\* nfa_e.py lines 25-35: a call, with the set returned and the argument as the
\* call leaves it; closure = set(states) is a copy, the argument is not written
_epsilon_closure_call(tr, S, ord) ==
    [returned |-> _epsilon_closure(tr, S, ord), states |-> S]

\* nfa_e.py lines 49-52 and nfa.py lines 31-34: the union of the destinations
Move(tr, current_states, symbol) ==
    UNION {IF symbol \in DOMAIN TGet(tr, state) THEN tr[state][symbol] ELSE {} :
           state \in current_states}

\* nfa_e.py lines 46-53: the for loop; current_states as the loop leaves it,
\* and the exception that ended it if any
RECURSIVE NFAE_loop(_, _, _, _)
NFAE_loop(al, tr, current_states, w) ==
    IF w = <<>> THEN [raised |-> "", current_states |-> current_states]
    ELSE IF Head(w) \notin al
         THEN [raised |-> "UnknownSymbol", current_states |-> current_states]
    ELSE NFAE_loop(al, tr,
                   _epsilon_closure(tr, Move(tr, current_states, Head(w)), <<>>),
                   Tail(w))

\* A validate_string that starts from the start state alone
NFAE_validate_string_from_start(al, tr, ss, ac, w) ==
    LET r == NFAE_loop(al, tr, {ss}, w)
    IN IF r.raised # "" THEN r.raised
       ELSE Bool(\E state \in r.current_states : state \in ac)

\* nfa_e.py lines 37-55
NFAE_validate_string(al, tr, ss, ac, w) ==
    LET r == NFAE_loop(al, tr, _epsilon_closure(tr, {ss}, <<>>), w)
    IN IF r.raised # "" THEN r.raised
       ELSE Bool(\E state \in r.current_states : state \in ac)

\* A loop that stops at the first symbol met with no current state left
RECURSIVE NFA_loop_early_exit(_, _, _, _)
NFA_loop_early_exit(al, tr, current_states, w) ==
    IF w = <<>> \/ current_states = {}
    THEN [raised |-> "", current_states |-> current_states]
    ELSE IF Head(w) \notin al
         THEN [raised |-> "UnknownSymbol", current_states |-> current_states]
    ELSE NFA_loop_early_exit(al, tr, Move(tr, current_states, Head(w)), Tail(w))

\* nfa.py lines 26-36: the for loop
RECURSIVE NFA_loop(_, _, _, _)
NFA_loop(al, tr, current_states, w) ==
    IF w = <<>> THEN [raised |-> "", current_states |-> current_states]
    ELSE IF Head(w) \notin al
         THEN [raised |-> "UnknownSymbol", current_states |-> current_states]
    ELSE NFA_loop(al, tr, Move(tr, current_states, Head(w)), Tail(w))

\* nfa.py lines 16-40
NFA_validate_string(al, tr, ss, ac, w) ==
    LET r == NFA_loop(al, tr, {ss}, w)
    IN IF r.raised # "" THEN r.raised
       ELSE Bool(\E state \in r.current_states : state \in ac)

\* A validate_string that checks the whole input against the alphabet before
\* it follows any transition
RECURSIVE DFA_loop_checked_first(_, _, _, _, _)
DFA_loop_checked_first(al, tr, ac, current_state, w) ==
    IF \E i \in 1..Len(w) : w[i] \notin al THEN "UnknownSymbol"
    ELSE IF w = <<>> THEN Bool(current_state \in ac)
    ELSE IF current_state \notin DOMAIN tr THEN "KeyError"
    ELSE IF Head(w) \notin DOMAIN tr[current_state] THEN "False"
    ELSE IF tr[current_state][Head(w)] = {} THEN "StopIteration"
    ELSE DFA_loop_checked_first(al, tr, ac,
                                CHOOSE n \in tr[current_state][Head(w)] : TRUE, Tail(w))

\* dfa.py lines 36-44.  next(iter(next_states)) raises StopIteration on the
\* empty set; _validate_dfa leaves at most one member to take.
RECURSIVE DFA_loop(_, _, _, _, _)
DFA_loop(al, tr, ac, current_state, w) ==
    IF w = <<>> THEN Bool(current_state \in ac)
    ELSE IF Head(w) \notin al THEN "UnknownSymbol"
    ELSE IF current_state \notin DOMAIN tr THEN "KeyError"
    ELSE IF Head(w) \notin DOMAIN tr[current_state] THEN "False"
    ELSE IF tr[current_state][Head(w)] = {} THEN "StopIteration"
    ELSE DFA_loop(al, tr, ac, CHOOSE n \in tr[current_state][Head(w)] : TRUE, Tail(w))

\* dfa.py lines 27-44
DFA_validate_string(al, tr, ss, ac, w) == DFA_loop(al, tr, ac, ss, w)

validate_string(c, al, tr, ss, ac, w) ==
    IF c = "DFA" THEN DFA_validate_string(al, tr, ss, ac, w)
    ELSE IF c = "NFA" THEN NFA_validate_string(al, tr, ss, ac, w)
    ELSE NFAE_validate_string(al, tr, ss, ac, w)

(***************************************************************************)
(* An automaton a conversion returns: the arguments handed to the          *)
(* constructor and the constructor's result ("ok" or the error raised).    *)
(***************************************************************************)
NoAutomaton ==
    [result |-> "none", states |-> {}, alphabet |-> {}, transitions |-> EmptyDict,
     start_state |-> "", accept_states |-> {}]

New(c, st, al, tr, ss, ac, ords) ==
    {[result |-> r, states |-> st, alphabet |-> al, transitions |-> tr,
      start_state |-> ss, accept_states |-> ac] :
        r \in ConstructorResults(c, st, al, tr, ss, ac, ords)}

\* nfa_e.py lines 62-72
NewTransitions(st, al, tr) ==
    [state \in st |->
        [symbol \in al \ {EPS} |->
            UNION {Dest(tr, s, symbol) : s \in _epsilon_closure(tr, {state}, <<>>)}]]

\* nfa_e.py line 74
NewAcceptStates(st, tr, ac) ==
    {state \in st : _epsilon_closure(tr, {state}, <<>>) \cap ac # {}}

\* nfa_e.py lines 57-82
to_nfa(st, al, tr, ss, ac, ords) ==
    New("NFA", st, al \ {EPS}, NewTransitions(st, al, tr), ss,
        NewAcceptStates(st, tr, ac), ords)

(***************************************************************************)
(* Subset construction.  The DFA's states are frozensets of the source's   *)
(* states, while a destination, which the constructor reads as the set of  *)
(* next states, is the composite frozenset itself: its members are the     *)
(* source's state names.  A Python value is a record, so that a name and a *)
(* frozenset can be compared: they are never equal.                        *)
(***************************************************************************)
PyStr(q) == [type |-> "str", str |-> q, members |-> {}]
PyFrozenset(C) == [type |-> "frozenset", str |-> "", members |-> C]

\* A loop over the symbols that looks for the composite among those waiting
\* in the worklist only, not among all those produced so far
RECURSIVE SymbolLoop_seen_in_worklist(_, _, _, _, _)
SymbolLoop_seen_in_worklist(tr, current, syms, st_list, unmarked) ==
    IF syms = <<>> THEN [dfa_states |-> st_list, unmarked_states |-> unmarked]
    ELSE LET closure == _epsilon_closure(tr,
                            UNION {Dest(tr, state, Head(syms)) : state \in current}, <<>>)
             seen == \E i \in 1..Len(unmarked) : unmarked[i] = closure
         IN SymbolLoop_seen_in_worklist(tr, current, Tail(syms),
                                        IF seen THEN st_list ELSE Append(st_list, closure),
                                        IF seen THEN unmarked ELSE Append(unmarked, closure))

\* A loop over the symbols that leaves the empty composite out of the states
\* and of the worklist
RECURSIVE SymbolLoop_skip_empty(_, _, _, _, _)
SymbolLoop_skip_empty(tr, current, syms, st_list, unmarked) ==
    IF syms = <<>> THEN [dfa_states |-> st_list, unmarked_states |-> unmarked]
    ELSE LET closure == _epsilon_closure(tr,
                            UNION {Dest(tr, state, Head(syms)) : state \in current}, <<>>)
             seen == closure = {} \/ \E i \in 1..Len(st_list) : st_list[i] = closure
         IN SymbolLoop_skip_empty(tr, current, Tail(syms),
                                  IF seen THEN st_list ELSE Append(st_list, closure),
                                  IF seen THEN unmarked ELSE Append(unmarked, closure))

\* nfa_e.py lines 100-110: the for loop over the symbols, for one composite
RECURSIVE SymbolLoop(_, _, _, _, _)
SymbolLoop(tr, current, syms, st_list, unmarked) ==
    IF syms = <<>> THEN [dfa_states |-> st_list, unmarked_states |-> unmarked]
    ELSE LET closure == _epsilon_closure(tr,
                            UNION {Dest(tr, state, Head(syms)) : state \in current}, <<>>)
             seen == \E i \in 1..Len(st_list) : st_list[i] = closure
         IN SymbolLoop(tr, current, Tail(syms),
                       IF seen THEN st_list ELSE Append(st_list, closure),
                       IF seen THEN unmarked ELSE Append(unmarked, closure))

\* nfa_e.py line 110, for every symbol: dfa_transitions[current]
CompositeTransitions(al, tr, current) ==
    [symbol \in al \ {EPS} |->
        _epsilon_closure(tr, UNION {Dest(tr, state, symbol) : state \in current}, <<>>)]

\* nfa_e.py line 112
DfaAcceptStates(st_list, ac) ==
    {st_list[i] : i \in {j \in 1..Len(st_list) : st_list[j] \cap ac # {}}}

\* nfa_e.py lines 114-123
BuildDfa(al, ac, ss_composite, st_list, trans) ==
    New("DFA",
        {PyFrozenset(st_list[i]) : i \in 1..Len(st_list)},
        al \ {EPS},
        [k \in {PyFrozenset(C) : C \in DOMAIN trans} |->
            [symbol \in DOMAIN trans[k.members] |->
                {PyStr(q) : q \in trans[k.members][symbol]}]],
        PyFrozenset(ss_composite),
        {PyFrozenset(C) : C \in DfaAcceptStates(st_list, ac)},
        {<<>>})

(***************************************************************************)
(* regex.py: RegularExpression                                             *)
(***************************************************************************)
Lower == {"a", "b", "c", "d", "e", "f", "g", "h", "i", "j", "k", "l", "m",
          "n", "o", "p", "q", "r", "s", "t", "u", "v", "w", "x", "y", "z"}
Upper == {"A", "B", "C", "D", "E", "F", "G", "H", "I", "J", "K", "L", "M",
          "N", "O", "P", "Q", "R", "S", "T", "U", "V", "W", "X", "Y", "Z"}
Digits == {"0", "1", "2", "3", "4", "5", "6", "7", "8", "9"}

\* str.isalnum() on one character
isalnum(char) == char \in Lower \cup Upper \cup Digits

\* regex.py line 25
valid_chars == Lower \cup Upper \cup Digits \cup {"|", "*", "+", "?", "(", ")", "."}

\* regex.py lines 20-30: "ok" or the ValueError raised
_validate_pattern(p) ==
    IF \E i \in 1..Len(p) : p[i] \notin valid_chars THEN "InvalidCharacter"
    ELSE IF p = <<>> THEN "EmptyPattern"
    ELSE "ok"

\* A counter that starts again from 0 after two values
new_state_wrapping(n) == "q" \o ToString(n % 2)

\* regex.py lines 42-43 with the value next(unique_id) returns
new_state(n) == "q" \o ToString(n)

\* {key: value}
Item(key, value) == [k \in {key} |-> value]

\* {**d1, **d2}: a later key replaces an earlier one
Merge(d1, d2) ==
    [k \in DOMAIN d1 \cup DOMAIN d2 |-> IF k \in DOMAIN d2 THEN d2[k] ELSE d1[k]]

\* list(S)[0]
First(S) == CHOOSE x \in S : TRUE

Fragment(st, al, tr, ss, ac) ==
    [states |-> st, alphabet |-> al, transitions |-> tr, start_state |-> ss,
     accept_states |-> ac]

\* regex.py lines 49-58: the arguments of NFAE(...)
Literal(char, n) ==
    LET start == new_state(n)
        end == new_state(n + 1)
    IN Fragment({start, end}, {char}, Item(start, Item(char, {end})), start, {end})

\* regex.py lines 61-74
Star(nfa, n) ==
    LET start == new_state(n)
        end == new_state(n + 1)
    IN Fragment({start, end} \cup nfa.states,
                nfa.alphabet,
                Merge(Merge(Item(start, Item(EPS, {nfa.start_state, end})),
                            nfa.transitions),
                      Item(First(nfa.accept_states), Item(EPS, {nfa.start_state, end}))),
                start,
                {end})

\* regex.py lines 78-93
Union(nfa1, nfa2, n) ==
    LET start == new_state(n)
        end == new_state(n + 1)
    IN Fragment({start, end} \cup nfa1.states \cup nfa2.states,
                nfa1.alphabet \cup nfa2.alphabet,
                Merge(Merge(Merge(Merge(
                    Item(start, Item(EPS, {nfa1.start_state, nfa2.start_state})),
                    nfa1.transitions),
                    nfa2.transitions),
                    Item(First(nfa1.accept_states), Item(EPS, {end}))),
                    Item(First(nfa2.accept_states), Item(EPS, {end}))),
                start,
                {end})

\* A concatenation that keeps the accept states of both operands
Concatenation_both_accept(nfa1, nfa2) ==
    Fragment(nfa1.states \cup nfa2.states,
             nfa1.alphabet \cup nfa2.alphabet,
             Merge(Merge(nfa1.transitions, nfa2.transitions),
                   Item(First(nfa1.accept_states), Item(EPS, {nfa2.start_state}))),
             nfa1.start_state,
             nfa1.accept_states \cup nfa2.accept_states)

\* regex.py lines 97-108
Concatenation(nfa1, nfa2) ==
    Fragment(nfa1.states \cup nfa2.states,
             nfa1.alphabet \cup nfa2.alphabet,
             Merge(Merge(nfa1.transitions, nfa2.transitions),
                   Item(First(nfa1.accept_states), Item(EPS, {nfa2.start_state}))),
             nfa1.start_state,
             nfa2.accept_states)

\* stack.append(NFAE(...)): the constructor validates the fragment
Push(stk, f, n) ==
    {[error |-> IF r = "ok" THEN "" ELSE r,
      stack |-> IF r = "ok" THEN Append(stk, f) ELSE stk,
      unique_id |-> n] :
        r \in ConstructorResults("NFAE", f.states, f.alphabet, f.transitions,
                                 f.start_state, f.accept_states, {<<>>})}

\* stack.pop() on the empty list
Underflow(stk, n) == {[error |-> "IndexError", stack |-> stk, unique_id |-> n]}

Pop(stk) == SubSeq(stk, 1, Len(stk) - 1)

\* The popped fragments after an operator that writes the entry of the accept
\* state into the fragment's own dict, as nfa.transitions[key] = value does
PoppedFragments_in_place(char, stk) ==
    LET n == IF char = "*" THEN 1 ELSE IF char \in {"|", "."} THEN 2 ELSE 0
        k == IF n <= Len(stk) THEN n ELSE Len(stk)
    IN [i \in 1..k |->
          LET f == stk[Len(stk) - k + i]
          IN IF k = n
             THEN [f EXCEPT !.transitions =
                      Merge(f.transitions,
                            Item(First(f.accept_states), Item(EPS, {f.start_state})))]
             ELSE f]

\* regex.py lines 60, 76-77, 95-96: the fragments the iteration popped (nfa,
\* or nfa1 and nfa2), in stack order, as they are when the iteration ends.
\* The dict displays of lines 63-67, 80-86 and 97-101 build a new dict from
\* the items of nfa.transitions; no statement writes to a popped fragment.
PoppedFragments(char, stk) ==
    LET n == IF char = "*" THEN 1 ELSE IF char \in {"|", "."} THEN 2 ELSE 0
        k == IF n <= Len(stk) THEN n ELSE Len(stk)
    IN [i \in 1..k |-> stk[Len(stk) - k + i]]

\* regex.py lines 48-108: one iteration of the for loop, on the operand
\* stack `stk` with the counter at n.  The results: the stack and the counter
\* as the iteration leaves them, and the exception it raised if any.
ThompsonStep(char, stk, n) ==
    IF isalnum(char) THEN Push(stk, Literal(char, n), n + 2)
    ELSE IF char = "*"
         THEN IF Len(stk) = 0 THEN Underflow(stk, n)
              ELSE Push(Pop(stk), Star(stk[Len(stk)], n), n + 2)
    ELSE IF char = "|"
         THEN IF Len(stk) = 0 THEN Underflow(stk, n)
              ELSE IF Len(stk) = 1 THEN Underflow(Pop(stk), n)
              ELSE Push(Pop(Pop(stk)), Union(stk[Len(stk) - 1], stk[Len(stk)], n), n + 2)
    ELSE IF char = "."
         THEN IF Len(stk) = 0 THEN Underflow(stk, n)
              ELSE IF Len(stk) = 1 THEN Underflow(Pop(stk), n)
              ELSE Push(Pop(Pop(stk)), Concatenation(stk[Len(stk) - 1], stk[Len(stk)]), n)
    ELSE {[error |-> "", stack |-> stk, unique_id |-> n]}

\* The characters of the patterns of the model: two literals, the three
\* operators, a character of valid_chars without a branch in the loop, and a
\* character outside valid_chars.
PatternChars == {"a", "b", "*", "|", ".", "+", "!"}

RECURSIVE Patterns(_)
Patterns(n) ==
    IF n = 0 THEN {<<>>}
    ELSE Patterns(n - 1) \cup {Append(w, x) : w \in {v \in Patterns(n - 1) : Len(v) = n - 1},
                                               x \in PatternChars}

(***************************************************************************)
(* The arguments a caller passes to a constructor.                         *)
(***************************************************************************)
Edges == StateIds \X (Symbols \cup {EPS}) \X StateIds

RECURSIVE EdgeSets(_)
EdgeSets(k) ==
    IF k = 0 THEN {{}}
    ELSE LET smaller == EdgeSets(k - 1)
         IN smaller \cup UNION {{E \cup {e} : e \in Edges} : E \in smaller}

\* The dict literal a caller writes for a set of edges: "sparse" has a key for
\* the states and symbols that have a transition only; "keys" has a key for
\* every declared state (as the test fixtures' "q_accept": {}); "full" has,
\* under every state, every symbol of the alphabet (as to_nfa builds it).
Styles == {"sparse", "keys", "full"}

MkTransitions(E, style, st, al) ==
    LET srcs == {e[1] : e \in E}
        keys == IF style = "sparse" THEN srcs ELSE srcs \cup st
        syms(s) == {e[2] : e \in {f \in E : f[1] = s}}
                   \cup (IF style = "full" THEN al ELSE {})
    IN [s \in keys |-> [x \in syms(s) |-> {e[3] : e \in {f \in E : f[1] = s /\ f[2] = x}}]]

StateSets == {{}, {"q0"}, {"q0", "q1"}, {"q0", "q1", "q2"}}

\* The subsets of the declared states, and one set with an undeclared state
AcceptSets(st) == (SUBSET st) \cup {{"q2"}}
Alphabets == {{}, {"a"}, {"a", "b"}, {"a", "b", EPS}}

RECURSIVE Strings(_)
Strings(n) ==
    IF n = 0 THEN {<<>>}
    ELSE Strings(n - 1) \cup {Append(w, x) : w \in {v \in Strings(n - 1) : Len(v) = n - 1},
                                              x \in InputSymbols}

Init ==
    /\ pc = "args"
    /\ cls = ""
    /\ states \in StateSets
    /\ alphabet \in Alphabets
    /\ \E E \in EdgeSets(MaxEdges), style \in Styles :
          transitions = MkTransitions(E, style, states, alphabet)
    /\ start_state = "q0"
    /\ accept_states \in AcceptSets(states)
    /\ error = ""
    /\ call = ""
    /\ input_string = <<>>
    /\ returned = ""
    /\ dfa_states = <<>>
    /\ dfa_transitions = EmptyDict
    /\ unmarked_states = <<>>
    /\ iterations = <<>>
    /\ pattern = <<>>
    /\ index = 0
    /\ stack = <<>>
    /\ unique_id = 0
    /\ operands = <<>>

\* DFA(...), NFA(...) or NFAE(...) on the arguments
Construct(c) ==
    /\ pc = "args"
    /\ \E r \in ConstructorResults(c, states, alphabet, transitions,
                                   start_state, accept_states, Orders) :
          /\ pc' = IF r = "ok" THEN "constructed" ELSE "failed"
          /\ error' = IF r = "ok" THEN "" ELSE r
    /\ cls' = c
    /\ UNCHANGED <<states, alphabet, transitions, start_state, accept_states,
                   call, input_string, returned>>
    /\ UNCHANGED toDfaVars
    /\ UNCHANGED regexVars

\* self.validate_string(w)
ValidateString(w) ==
    /\ pc = "constructed"
    /\ call' = "validate_string"
    /\ input_string' = w
    /\ returned' = validate_string(cls, alphabet, transitions, start_state,
                                   accept_states, w)
    /\ pc' = "returned"
    /\ UNCHANGED error
    /\ UNCHANGED selfVars
    /\ UNCHANGED toDfaVars
    /\ UNCHANGED regexVars

\* self.to_nfa()
ToNfa ==
    /\ pc = "constructed"
    /\ cls = "NFAE"
    /\ call' = "to_nfa"
    /\ input_string' = <<>>
    /\ returned' \in to_nfa(states, alphabet, transitions, start_state,
                            accept_states, Orders)
    /\ pc' = "returned"
    /\ UNCHANGED error
    /\ UNCHANGED selfVars
    /\ UNCHANGED toDfaVars
    /\ UNCHANGED regexVars

\* self.to_dfa(), lines 90-94: up to the while loop
ToDfaBegin ==
    /\ pc = "constructed"
    /\ cls = "NFAE"
    /\ pc' = "to_dfa"
    /\ call' = "to_dfa"
    /\ input_string' = <<>>
    /\ returned' = ""
    /\ dfa_states' = <<_epsilon_closure(transitions, {start_state}, <<>>)>>
    /\ unmarked_states' = <<_epsilon_closure(transitions, {start_state}, <<>>)>>
    /\ dfa_transitions' = EmptyDict
    /\ iterations' = <<>>
    /\ UNCHANGED error
    /\ UNCHANGED selfVars
    /\ UNCHANGED regexVars

\* self.to_dfa(), lines 96-110: one iteration of the while loop
ToDfaIteration ==
    /\ pc = "to_dfa"
    /\ unmarked_states # <<>>
    /\ LET current == unmarked_states[Len(unmarked_states)]
           popped == SubSeq(unmarked_states, 1, Len(unmarked_states) - 1)
       IN /\ \E syms \in Perms(alphabet \ {EPS}) :
                LET r == SymbolLoop(transitions, current, syms, dfa_states, popped)
                IN /\ dfa_states' = r.dfa_states
                   /\ unmarked_states' = r.unmarked_states
          /\ dfa_transitions' =
                [C \in DOMAIN dfa_transitions \cup {current} |->
                    IF C = current
                    THEN CompositeTransitions(alphabet, transitions, current)
                    ELSE dfa_transitions[C]]
          /\ iterations' = Append(iterations, current)
    /\ UNCHANGED <<pc, error, call, input_string, returned>>
    /\ UNCHANGED selfVars
    /\ UNCHANGED regexVars

\* self.to_dfa(), lines 112-123: the DFA is built from what the loop produced
\* and returned; the locals of the call are gone.
ToDfaEnd ==
    /\ pc = "to_dfa"
    /\ unmarked_states = <<>>
    /\ pc' = "returned"
    /\ returned' \in BuildDfa(alphabet, accept_states, dfa_states[1], dfa_states,
                              dfa_transitions)
    /\ dfa_states' = <<>>
    /\ dfa_transitions' = EmptyDict
    /\ iterations' = <<>>
    /\ UNCHANGED <<error, call, input_string, unmarked_states>>
    /\ UNCHANGED selfVars
    /\ UNCHANGED regexVars

\* The caller is done with what the call returned and goes on with self
Continue ==
    /\ pc = "returned"
    /\ pc' = "constructed"
    /\ call' = ""
    /\ input_string' = <<>>
    /\ returned' = ""
    /\ UNCHANGED error
    /\ UNCHANGED selfVars
    /\ UNCHANGED toDfaVars
    /\ UNCHANGED regexVars

Next ==
    \/ \E c \in {"DFA", "NFA", "NFAE"} : Construct(c)
    \/ \E w \in Strings(MaxLen) : ValidateString(w)
    \/ ToNfa
    \/ ToDfaBegin
    \/ ToDfaIteration
    \/ ToDfaEnd
    \/ Continue

Spec == Init /\ [][Next]_vars

(***************************************************************************)
(* The regular-expression pipeline: RegularExpression(pattern), then       *)
(* to_nfa_e(), whose result is the automaton the caller goes on with.      *)
(***************************************************************************)
InitRegex ==
    /\ pc = "pattern"
    /\ cls = ""
    /\ states = {}
    /\ alphabet = {}
    /\ transitions = EmptyDict
    /\ start_state = ""
    /\ accept_states = {}
    /\ error = ""
    /\ call = ""
    /\ input_string = <<>>
    /\ returned = ""
    /\ dfa_states = <<>>
    /\ dfa_transitions = EmptyDict
    /\ unmarked_states = <<>>
    /\ iterations = <<>>
    /\ pattern \in Patterns(MaxPattern)
    /\ index = 0
    /\ stack = <<>>
    /\ unique_id = 0
    /\ operands = <<>>

\* RegularExpression(pattern)
NewRegularExpression ==
    /\ pc = "pattern"
    /\ pc' = IF _validate_pattern(pattern) = "ok" THEN "regex" ELSE "failed"
    /\ error' = IF _validate_pattern(pattern) = "ok" THEN "" ELSE _validate_pattern(pattern)
    /\ UNCHANGED <<call, input_string, returned>>
    /\ UNCHANGED selfVars
    /\ UNCHANGED toDfaVars
    /\ UNCHANGED regexVars

\* to_nfa_e(): _thompson_construct(self.pattern), lines 39-45
ThompsonBegin ==
    /\ pc = "regex"
    /\ pc' = "thompson"
    /\ call' = "to_nfa_e"
    /\ index' = 0
    /\ stack' = <<>>
    /\ unique_id' = 0
    /\ operands' = <<>>
    /\ UNCHANGED <<error, input_string, returned, pattern>>
    /\ UNCHANGED selfVars
    /\ UNCHANGED toDfaVars

\* _thompson_construct, lines 47-108: one iteration of the for loop
ThompsonChar ==
    /\ pc = "thompson"
    /\ index < Len(pattern)
    /\ \E r \in ThompsonStep(pattern[index + 1], stack, unique_id) :
          /\ stack' = r.stack
          /\ unique_id' = r.unique_id
          /\ error' = r.error
          /\ pc' = IF r.error = "" THEN "thompson" ELSE "failed"
          /\ index' = IF r.error = "" THEN index + 1 ELSE index
    /\ operands' = PoppedFragments(pattern[index + 1], stack)
    /\ UNCHANGED <<call, input_string, returned, pattern>>
    /\ UNCHANGED selfVars
    /\ UNCHANGED toDfaVars

\* _thompson_construct, lines 110-113, a stack that does not hold one fragment
ThompsonReject ==
    /\ pc = "thompson"
    /\ index = Len(pattern)
    /\ Len(stack) # 1
    /\ pc' = "failed"
    /\ error' = "MalformedPattern"
    /\ UNCHANGED <<call, input_string, returned>>
    /\ UNCHANGED selfVars
    /\ UNCHANGED toDfaVars
    /\ UNCHANGED regexVars

\* _thompson_construct, lines 110-113: the fragment popped is the automaton
\* to_nfa_e() returns
ThompsonReturn ==
    /\ pc = "thompson"
    /\ index = Len(pattern)
    /\ Len(stack) = 1
    /\ pc' = "constructed"
    /\ cls' = "NFAE"
    /\ states' = stack[1].states
    /\ alphabet' = stack[1].alphabet
    /\ transitions' = stack[1].transitions
    /\ start_state' = stack[1].start_state
    /\ accept_states' = stack[1].accept_states
    /\ stack' = <<>>
    /\ operands' = <<>>
    /\ call' = ""
    /\ UNCHANGED <<error, input_string, returned, pattern, index, unique_id>>
    /\ UNCHANGED toDfaVars

NextRegex ==
    \/ NewRegularExpression
    \/ ThompsonBegin
    \/ ThompsonChar
    \/ ThompsonReject
    \/ ThompsonReturn
    \/ \E w \in Strings(MaxLen) : ValidateString(w)
    \/ ToNfa
    \/ ToDfaBegin
    \/ ToDfaIteration
    \/ ToDfaEnd
    \/ Continue

SpecRegex == InitRegex /\ [][NextRegex]_vars

(***************************************************************************)
(* Notions the properties are stated with.  None of them is computed the   *)
(* way the code computes: each is a least fixed point or a quantification. *)
(***************************************************************************)
\* The input strings up to MaxLen whose symbols all belong to `al`
StringsOver(al) == {w \in Strings(MaxLen) : \A i \in 1..Len(w) : w[i] \in al}

\* The states one transition away from a state of S, on any symbol
Successors(tr, S) ==
    UNION {UNION {tr[s][x] : x \in DOMAIN tr[s]} : s \in S \cap DOMAIN tr}

\* The states reachable from S by following transitions on any symbol
RECURSIVE ReachableFrom(_, _)
ReachableFrom(tr, S) ==
    LET N == S \cup Successors(tr, S)
    IN IF N = S THEN S ELSE ReachableFrom(tr, N)

\* The smallest superset of S closed under epsilon transitions
RECURSIVE EpsilonReachable(_, _)
EpsilonReachable(tr, S) ==
    LET N == S \cup UNION {Dest(tr, s, EPS) : s \in S}
    IN IF N = S THEN S ELSE EpsilonReachable(tr, N)

\* The epsilon-transition subgraph has a directed cycle
HasEpsilonCycle(st, tr) ==
    \E q \in st : q \in EpsilonReachable(tr, Dest(tr, q, EPS))

\* Configurations <<q, i>>: the automaton is in q and has read i symbols of w
ConfigSteps(tr, w, C) ==
    UNION {{<<q, c[2]>> : q \in Dest(tr, c[1], EPS)}
           \cup (IF c[2] < Len(w)
                 THEN {<<q, c[2] + 1>> : q \in Dest(tr, c[1], w[c[2] + 1])}
                 ELSE {}) : c \in C}

RECURSIVE Configs(_, _, _)
Configs(tr, w, C) ==
    LET N == C \cup ConfigSteps(tr, w, C)
    IN IF N = C THEN C ELSE Configs(tr, w, N)

\* Some run from ss reads exactly w, epsilon moves allowed anywhere, and ends
\* in an accept state
AcceptedByRun(tr, ss, ac, w) ==
    LET C == Configs(tr, w, {<<ss, 0>>})
    IN \E q \in ac : <<q, Len(w)>> \in C

\* The first n symbols of w are each followed along a transition from ss: the
\* state has an entry, the entry has the symbol, the destination is not empty
Followed(st, tr, ss, w, n) ==
    \E r \in [1..(n + 1) -> st \cup {ss}] :
        /\ r[1] = ss
        /\ \A j \in 1..n :
              /\ r[j] \in DOMAIN tr
              /\ w[j] \in DOMAIN tr[r[j]]
              /\ r[j + 1] \in tr[r[j]][w[j]]

\* A call has returned (or raised) and its result is in `returned`
Returned(c, op) == pc = "returned" /\ cls = c /\ call = op

(***************************************************************************)
(* Conversions of an NFA-epsilon                                           *)
(***************************************************************************)

\* C1: for a constructed NFA-epsilon and every input string over its
\* non-epsilon alphabet, to_nfa() and to_dfa() both return an automaton and
\* the three automata give the same boolean for the string.
C1_ConversionEquivalence ==
    Returned("NFAE", "to_dfa") =>
        /\ returned.result = "ok"
        /\ \A n \in to_nfa(states, alphabet, transitions, start_state,
                           accept_states, Orders) :
              /\ n.result = "ok"
              /\ \A w \in StringsOver(alphabet \ {EPS}) :
                    LET e == NFAE_validate_string(alphabet, transitions, start_state,
                                                  accept_states, w)
                    IN /\ e \in {"True", "False"}
                       /\ e = NFA_validate_string(n.alphabet, n.transitions,
                                                  n.start_state, n.accept_states, w)
                       /\ e = DFA_validate_string(returned.alphabet,
                                                  returned.transitions,
                                                  returned.start_state,
                                                  returned.accept_states, w)

\* C2: to_dfa() of a constructed NFA-epsilon completes without a construction
\* error: every destination set it hands to the DFA constructor is a subset
\* of the DFA's states with at most one member, and the constructor accepts
\* the arguments.
C2_SubsetConstructionValid ==
    Returned("NFAE", "to_dfa") =>
        /\ \A k \in DOMAIN returned.transitions :
              \A x \in DOMAIN returned.transitions[k] :
                  /\ returned.transitions[k][x] \subseteq returned.states
                  /\ Cardinality(returned.transitions[k][x]) <= 1
        /\ returned.result = "ok"

\* C3: to_nfa() of a constructed NFA-epsilon completes without a construction
\* error: the NFA it builds keeps the states and the start state and passes
\* the structural checks, the unused-state and unreachable-state ones included.
C3_EpsilonRemovalValid ==
    Returned("NFAE", "to_nfa") =>
        /\ returned.states = states
        /\ returned.start_state = start_state
        /\ returned.result = "ok"

(***************************************************************************)
(* DFA.validate_string                                                     *)
(***************************************************************************)

\* C4: for a constructed DFA and an input string whose symbols all belong to
\* the alphabet, validate_string returns a boolean and never ends in an error.
C4_TotalOnAlphabet ==
    (Returned("DFA", "validate_string")
       /\ \A i \in 1..Len(input_string) : input_string[i] \in alphabet)
    => returned \in {"True", "False"}

\* The statement of C5 as the specification words it: the unknown-symbol
\* error for every input string with a symbol outside the alphabet, at
\* whatever position.
C5_UnknownSymbolAnywhere ==
    (Returned("DFA", "validate_string")
       /\ \E i \in 1..Len(input_string) : input_string[i] \notin alphabet)
    => returned = "UnknownSymbol"

\* C5: DFA.validate_string fails with the unknown-symbol error exactly when
\* the input string has a symbol outside the alphabet and every symbol before
\* the first such one is followed along a transition; once a symbol of the
\* alphabet has no transition the call ends there and a later unknown symbol
\* is not reported.
C5_UnknownSymbolWhenReached ==
    Returned("DFA", "validate_string") =>
        (returned = "UnknownSymbol"
           <=> \E i \in 1..Len(input_string) :
                  /\ input_string[i] \notin alphabet
                  /\ \A j \in 1..(i - 1) : input_string[j] \in alphabet
                  /\ Followed(states, transitions, start_state, input_string, i - 1))

\* An unknown symbol reported after a transition has been followed
C5_Witness ==
    /\ Returned("DFA", "validate_string")
    /\ returned = "UnknownSymbol"
    /\ Len(input_string) = 2
    /\ input_string[1] \in alphabet

(***************************************************************************)
(* NFAE.validate_string                                                    *)
(***************************************************************************)
\* current_states after the first n symbols of w
Tracked(al, tr, ss, w, n) ==
    NFAE_loop(al, tr, _epsilon_closure(tr, {ss}, <<>>), SubSeq(w, 1, n)).current_states

Validated == pc \in {"constructed", "failed"} /\ call = "" /\ cls # ""

\* The checks of lines 33-57 (start, accept, transitions, usage) pass
PassesEarlyChecks ==
    error \notin {"InvalidStartState", "InvalidAcceptStates", "UndeclaredState",
                  "UndeclaredSymbol", "UnusedState"}

\* C8: construction fails whenever a declared state is not reachable from
\* the start state by transitions on any symbol, epsilon included; in a
\* constructed automaton the set the reachability traversal computes is the
\* declared state set and is exactly the set of reachable states; and the
\* unreachable-state error is raised for an unreachable state only.
C8_Reachability ==
    Validated =>
        LET reach == ReachableFrom(transitions, {start_state})
        IN /\ pc # "failed" => states \subseteq reach
           /\ pc = "constructed" => reach = states
           /\ error = "UnreachableState" => ~(states \subseteq reach)
           /\ PassesEarlyChecks =>
                 \A ord \in Orders :
                     _find_reachable_states(transitions, start_state, ord) = reach

\* A state that a transition names and the start state does not reach, next
\* to a state the start state reaches by an epsilon transition
C8_Witness ==
    /\ Validated
    /\ error = "UnreachableState"
    /\ \E q \in states \ ReachableFrom(transitions, {start_state}) :
          q \in Successors(transitions, states)
    /\ Dest(transitions, start_state, EPS) \ {start_state} # {}

\* C9: for fields that pass the start, accept, transition, usage and
\* reachability checks and hold an epsilon transition, construction fails
\* with the circular-epsilon error iff the epsilon subgraph has a directed
\* cycle, a self-loop included; the detector's answer is the same for every
\* order in which the states are taken as roots.
C9_CircularEpsilon ==
    (Validated /\ PassesEarlyChecks /\ error # "UnreachableState"
       /\ \E q \in states : Dest(transitions, q, EPS) # {})
    => LET cycle == HasEpsilonCycle(states, transitions)
       IN /\ error = "CircularEpsilon" <=> cycle
          /\ \A ord \in Orders :
                _has_circular_epsilon_transitions(states, transitions, ord) = cycle

\* A cycle that the start state is not on, behind an epsilon transition
C9_Witness ==
    /\ Validated
    /\ error = "CircularEpsilon"
    /\ start_state \notin EpsilonReachable(transitions,
                                           Dest(transitions, start_state, EPS))
    /\ Dest(transitions, start_state, EPS) # {}

(***************************************************************************)
(* RegularExpression                                                       *)
(***************************************************************************)

\* C7: the pattern of "ab" in postfix form (a, b, concatenation), taken
\* through to_nfa_e() and to_dfa(), yields a DFA that accepts "ab" and
\* rejects "", "a" and "ba".
C7_ConcatenationDfa ==
    (pattern = <<"a", "b", ".">> /\ pc = "returned" /\ call = "to_dfa")
    => /\ returned.result = "ok"
       /\ DFA_validate_string(returned.alphabet, returned.transitions,
                              returned.start_state, returned.accept_states,
                              <<"a", "b">>) = "True"
       /\ \A w \in {<<>>, <<"a">>, <<"b", "a">>} :
             DFA_validate_string(returned.alphabet, returned.transitions,
                                 returned.start_state, returned.accept_states,
                                 w) = "False"

\* An operator that needs more fragments than the stack holds
TooFewFragments(char, n) ==
    \/ char = "*" /\ n < 1
    \/ char \in {"|", "."} /\ n < 2

\* C10: whenever an operator is met with too few fragments on the stack, or
\* the stack does not hold exactly one fragment at the end of the pattern,
\* the construction fails with the malformed-pattern error and with no other
\* kind of failure.
C10_MalformedPattern ==
    [][(/\ pc = "thompson"
        /\ IF index < Len(pattern)
           THEN TooFewFragments(pattern[index + 1], Len(stack))
           ELSE Len(stack) # 1)
       => (pc' = "failed" /\ error' = "MalformedPattern")]_vars

\* The characters with a branch in the loop of _thompson_construct
Tokens == {c \in valid_chars : isalnum(c)} \cup {"*", "|", "."}

\* C11: a pattern holding a character that is neither an alphanumeric literal
\* nor one of the operators '*', '|', '.' is rejected by the constructor with
\* the malformed-pattern error, and every iteration of the construction that
\* does not fail changes the operand stack: no character is skipped.
C11_OnlyLiteralsAndOperators ==
    /\ []((pc # "pattern" /\ \E i \in 1..Len(pattern) : pattern[i] \notin Tokens)
          => (pc = "failed" /\ error = "InvalidCharacter"))
    /\ [][(pc = "thompson" /\ pc' = "thompson") => stack' # stack]_vars

(***************************************************************************)
(* AutomatonBase._validate_automaton: the usage check                      *)
(***************************************************************************)
\* The checks of lines 33-48 (start, accept, transitions) pass
ReachesUsageCheck ==
    error \notin {"InvalidStartState", "InvalidAcceptStates", "UndeclaredState",
                  "UndeclaredSymbol"}

IsSource(q) == \E x \in DOMAIN TGet(transitions, q) : transitions[q][x] # {}

IsDestination(q) ==
    \E p \in DOMAIN transitions : \E x \in DOMAIN transitions[p] : q \in transitions[p][x]

\* C12: the usage check reports the unused-state error exactly when a
\* declared state is none of: the source of a transition, the destination of
\* a transition, the start state, an accept state; a state that is only the
\* source of a transition is not reported as unused.
C12_UnusedState ==
    (Validated /\ ReachesUsageCheck)
    => (error = "UnusedState"
          <=> \E q \in states : /\ ~IsSource(q)
                                /\ ~IsDestination(q)
                                /\ q # start_state
                                /\ q \notin accept_states)

(***************************************************************************)
(* NFA.validate_string                                                     *)
(***************************************************************************)
\* The transitions without the epsilon ones
WithoutEpsilon(tr) == [s \in DOMAIN tr |-> [x \in DOMAIN tr[s] \ {EPS} |-> tr[s][x]]]

\* The states some sequence of n transitions leads to from ss, reading the
\* first n symbols of w; epsilon transitions are not taken
ReadsTo(st, tr, ss, w, n) ==
    LET C == Configs(WithoutEpsilon(tr), w, {<<ss, 0>>})
    IN {q \in st : <<q, n>> \in C}

\* C13: NFA.validate_string fails with the unknown-symbol error for every
\* input with a symbol outside the alphabet, also when the symbol comes after
\* the position where the current-state set became empty; for an input over
\* the alphabet whose current-state set becomes empty at some position it
\* returns false.
C13_NfaChecksEverySymbol ==
    Returned("NFA", "validate_string") =>
        IF \E i \in 1..Len(input_string) : input_string[i] \notin alphabet
        THEN returned = "UnknownSymbol"
        ELSE /\ returned \in {"True", "False"}
             /\ (\E n \in 0..Len(input_string) :
                    ReadsTo(states, transitions, start_state, input_string, n) = {})
                => returned = "False"
             /\ returned = Bool(ReadsTo(states, transitions, start_state, input_string,
                                        Len(input_string)) \cap accept_states # {})

\* An unknown symbol reported after the symbol that emptied the set
C13_Witness ==
    /\ Returned("NFA", "validate_string")
    /\ returned = "UnknownSymbol"
    /\ Len(input_string) = 2
    /\ input_string[1] \in alphabet
    /\ ReadsTo(states, transitions, start_state, input_string, 1) = {}

(***************************************************************************)
(* validate_string on the empty input                                      *)
(***************************************************************************)

\* C14: on the empty input, DFA.validate_string and NFA.validate_string
\* return true iff the start state is an accept state, and
\* NFAE.validate_string returns true iff the epsilon-closure of {start state}
\* contains an accept state.
C14_EmptyInput ==
    (pc = "returned" /\ call = "validate_string" /\ input_string = <<>>)
    => IF cls = "NFAE"
       THEN returned = Bool(EpsilonReachable(transitions, {start_state})
                              \cap accept_states # {})
       ELSE returned = Bool(start_state \in accept_states)

\* The empty input accepted by an NFA-epsilon whose start state is not an
\* accept state
C14_Witness ==
    /\ Returned("NFAE", "validate_string")
    /\ input_string = <<>>
    /\ returned = "True"
    /\ start_state \notin accept_states

(***************************************************************************)
(* The automata and the input strings of the tests                         *)
(***************************************************************************)
\* validate_nfa.py, setUp
NfaFixture ==
    [states |-> {"q0", "q1", "q2", "q_intermediate", "q_accept"},
     alphabet |-> {"a", "b"},
     transitions |-> [q0 |-> [b |-> {"q1"}, a |-> {"q2"}],
                      q1 |-> [a |-> {"q2"}],
                      q2 |-> [b |-> {"q0", "q_intermediate"}],
                      q_intermediate |-> [b |-> {"q_accept"}, a |-> {"q2"}],
                      q_accept |-> EmptyDict],
     start_state |-> "q0",
     accept_states |-> {"q_accept"}]

\* validate_nfa_e.py, setUp
NfaeFixture ==
    [states |-> {"q0", "q1", "q2", "q3", "q_accept"},
     alphabet |-> {"a", "b"},
     transitions |-> [q0 |-> [eps |-> {"q1"}, a |-> {"q2"}],
                      q1 |-> [b |-> {"q2"}],
                      q2 |-> [eps |-> {"q3"}],
                      q3 |-> [a |-> {"q_accept"}],
                      q_accept |-> EmptyDict],
     start_state |-> "q0",
     accept_states |-> {"q_accept"}]

\* validate_nfa_e.py, test_valid_empty_string_with_epsilon and
\* test_edge_case_only_epsilon_transitions
OnlyEpsilonFixture ==
    [states |-> {"q0", "q1", "q_accept"},
     alphabet |-> {"a", "b"},
     transitions |-> [q0 |-> [eps |-> {"q1"}], q1 |-> [eps |-> {"q_accept"}]],
     start_state |-> "q0",
     accept_states |-> {"q_accept"}]

\* validate_nfa_e.py, test_no_epsilon_usage
NoEpsilonFixture ==
    [states |-> {"q0", "q1", "q_accept"},
     alphabet |-> {"a", "b"},
     transitions |-> [q0 |-> [a |-> {"q1"}], q1 |-> [b |-> {"q_accept"}]],
     start_state |-> "q0",
     accept_states |-> {"q_accept"}]

Fixtures == {NfaFixture, NfaeFixture, OnlyEpsilonFixture, NoEpsilonFixture}

\* The input strings of the two test files
FixtureStrings ==
    {<<>>, <<"a", "b", "b">>, <<"a", "a", "a">>, <<"a", "b">>,
     <<"b", "a", "b", "a", "b", "a", "b">>, <<"a", "b", "c">>,
     <<"b", "a">>, <<"b", "b">>, <<"b">>, <<"b", "a", "a">>, <<"b", "a", "c">>}

InitFixture ==
    /\ pc = "args"
    /\ cls = ""
    /\ \E f \in Fixtures :
          /\ states = f.states
          /\ alphabet = f.alphabet
          /\ transitions = f.transitions
          /\ start_state = f.start_state
          /\ accept_states = f.accept_states
    /\ error = ""
    /\ call = ""
    /\ input_string = <<>>
    /\ returned = ""
    /\ dfa_states = <<>>
    /\ dfa_transitions = EmptyDict
    /\ unmarked_states = <<>>
    /\ iterations = <<>>
    /\ pattern = <<>>
    /\ index = 0
    /\ stack = <<>>
    /\ unique_id = 0
    /\ operands = <<>>

NextFixture ==
    \/ \E c \in {"DFA", "NFA", "NFAE"} : Construct(c)
    \/ \E w \in FixtureStrings \cup Strings(MaxLen) : ValidateString(w)
    \/ ToNfa
    \/ ToDfaBegin
    \/ ToDfaIteration
    \/ ToDfaEnd
    \/ Continue

SpecFixture == InitFixture /\ [][NextFixture]_vars

\* C15: on the NFA of the test fixture the string "bababab", which loops
\* through the transitions, is accepted: validate_string returns true.
C15_NfaFixtureAccepts ==
    (Returned("NFA", "validate_string")
       /\ states = NfaFixture.states
       /\ transitions = NfaFixture.transitions
       /\ accept_states = NfaFixture.accept_states
       /\ input_string = <<"b", "a", "b", "a", "b", "a", "b">>)
    => returned = "True"

\* C16: on the NFA-epsilon of the test fixture the string "baa", the accepted
\* string "ba" with one more symbol, is accepted: validate_string returns true.
C16_NfaeFixtureAccepts ==
    (Returned("NFAE", "validate_string")
       /\ states = NfaeFixture.states
       /\ transitions = NfaeFixture.transitions
       /\ accept_states = NfaeFixture.accept_states
       /\ input_string = <<"b", "a", "a">>)
    => returned = "True"

(***************************************************************************)
(* The epsilon symbol and the declared alphabet                            *)
(***************************************************************************)
\* The result of the constructor that led to the state
ConstructorResult == IF error = "" THEN "ok" ELSE error

\* The statement of C17 as the specification words it: no constructed
\* automaton has the epsilon symbol in its declared alphabet.
C17_EpsilonNotInAlphabet ==
    (cls # "" /\ pc \notin {"args", "failed"}) => EPS \notin alphabet

\* C17: the constructors do not look for the epsilon symbol in the alphabet:
\* construction succeeds or fails in the same way with and without epsilon in
\* the declared alphabet, so a constructed automaton may declare it; the
\* automaton to_nfa() or to_dfa() builds declares the alphabet without it.
C17_EpsilonInAlphabetIgnored ==
    /\ Validated =>
          \E ord \in Orders :
              ConstructorResult
                 \in ConstructorResults(cls, states,
                                        IF EPS \in alphabet THEN alphabet \ {EPS}
                                        ELSE alphabet \cup {EPS},
                                        transitions, start_state, accept_states, {ord})
    /\ (pc = "returned" /\ call \in {"to_nfa", "to_dfa"})
          => returned.alphabet = alphabet \ {EPS}

\* A constructed automaton whose declared alphabet holds epsilon
C17_Witness ==
    /\ Validated
    /\ pc = "constructed"
    /\ EPS \in alphabet
    /\ \E q \in states : Dest(transitions, q, EPS) # {}

(***************************************************************************)
(* NFAE._epsilon_closure                                                   *)
(***************************************************************************)

\* C18: for every set S of states of a constructed NFA-epsilon,
\* _epsilon_closure(S) is the smallest superset of S closed under epsilon
\* transitions, whatever the order the sets are iterated in; applied twice it
\* gives the same set as applied once, and S is left unchanged.
C18_EpsilonClosure ==
    (pc = "constructed" /\ cls = "NFAE") =>
        \A S \in SUBSET states :
            LET reach == EpsilonReachable(transitions, S)
            IN \A ord \in Orders :
                  LET c == _epsilon_closure_call(transitions, S, ord)
                  IN /\ c.returned = reach
                     /\ _epsilon_closure(transitions, reach, ord) = reach
                     /\ c.states = S

\* A closure that holds a state two epsilon transitions away from S
C18_Witness ==
    /\ pc = "constructed"
    /\ cls = "NFAE"
    /\ \E q \in states :
          \E p \in _epsilon_closure(transitions, {q}, <<>>) :
              /\ p # q
              /\ p \notin Dest(transitions, q, EPS)

(***************************************************************************)
(* NFAE.to_dfa: the worklist loop                                          *)
(***************************************************************************)
\* No member of the composite C has a transition on the symbol x
NoSuccessor(C, x) == \A q \in C : Dest(transitions, q, x) = {}

\* The composites of dfa_states
DfaStateSet == {dfa_states[i] : i \in 1..Len(dfa_states)}

\* The statement of C19 as the specification words it: for a composite
\* without successor on a symbol no transition is recorded, and the empty
\* composite is never a state of the DFA.
C19_EmptyCompositeOmitted ==
    pc = "to_dfa" =>
        /\ {} \notin DfaStateSet
        /\ \A C \in DOMAIN dfa_transitions : \A x \in alphabet \ {EPS} :
              NoSuccessor(C, x) => x \notin DOMAIN dfa_transitions[C]

\* C19: in the subset construction, when no member of a composite has a
\* transition on a symbol, to_dfa() records the empty composite as the
\* destination of the (composite, symbol) pair, and the empty composite is a
\* state of the DFA, added once; every expanded composite has a recorded
\* destination for every symbol of the alphabet but epsilon.
C19_EmptyCompositeRecorded ==
    pc = "to_dfa" =>
        /\ \A C \in DOMAIN dfa_transitions :
              /\ DOMAIN dfa_transitions[C] = alphabet \ {EPS}
              /\ \A x \in alphabet \ {EPS} :
                    /\ dfa_transitions[C][x] \in DfaStateSet
                    /\ NoSuccessor(C, x) <=> dfa_transitions[C][x] = {}
        /\ Cardinality({i \in 1..Len(dfa_states) : dfa_states[i] = {}}) <= 1

\* A composite with members and without successor on a symbol, after its
\* expansion
C19_Witness ==
    /\ pc = "to_dfa"
    /\ \E C \in DOMAIN dfa_transitions : \E x \in alphabet \ {EPS} :
          /\ C # {}
          /\ NoSuccessor(C, x)
          /\ dfa_transitions[C][x] = {}
    /\ {} \in DfaStateSet

\* to_dfa() on every NFA-epsilon the constructor accepts: the while loop runs
\* on once begun, so an iteration is taken as long as the worklist holds a
\* composite
NextToDfa ==
    \/ Construct("NFAE")
    \/ ToDfaBegin
    \/ ToDfaIteration
    \/ ToDfaEnd

\* The arguments the NFAE constructor accepts
InitToDfa ==
    /\ Init
    /\ "ok" \in ConstructorResults("NFAE", states, alphabet, transitions,
                                   start_state, accept_states, Orders)

SpecToDfa ==
    /\ InitToDfa
    /\ [][NextToDfa]_vars
    /\ WF_vars(ToDfaIteration)

RECURSIVE Pow2(_)
Pow2(n) == IF n = 0 THEN 1 ELSE 2 * Pow2(n - 1)

Members(seq) == {seq[i] : i \in 1..Len(seq)}

NoDuplicate(seq) == \A i, j \in 1..Len(seq) : seq[i] = seq[j] => i = j

\* C20: the worklist loop of to_dfa() empties the worklist and the call
\* returns; a composite is enqueued only the first time a set with its
\* members is produced, every enqueued composite is expanded once and no
\* more, and the loop runs at most 2^N iterations for N states.
C20_WorklistTerminates ==
    /\ [](pc = "to_dfa" =>
            /\ NoDuplicate(dfa_states)
            /\ NoDuplicate(unmarked_states)
            /\ NoDuplicate(iterations)
            /\ Members(iterations) \cap Members(unmarked_states) = {}
            /\ Members(dfa_states) = Members(iterations) \cup Members(unmarked_states)
            /\ DOMAIN dfa_transitions = Members(iterations)
            /\ Members(dfa_states) \subseteq SUBSET states
            /\ Len(iterations) <= Pow2(Cardinality(states)))
    /\ (pc = "to_dfa") ~> (unmarked_states = <<>>)

\* The worklist emptied after three expansions or more, a composite having
\* been produced again after its first time
C20_Witness ==
    /\ pc = "to_dfa"
    /\ unmarked_states = <<>>
    /\ Len(iterations) >= 3
    /\ \E C, D \in DOMAIN dfa_transitions : \E x, y \in alphabet \ {EPS} :
          /\ <<C, x>> # <<D, y>>
          /\ dfa_transitions[C][x] = dfa_transitions[D][y]

(***************************************************************************)
(* The regex builder's fragments                                           *)
(***************************************************************************)

\* The loop of _thompson_construct is about to handle the operator `char`
\* with at least n fragments on the stack
AtOperator(char, n) ==
    /\ pc = "thompson"
    /\ index < Len(pattern)
    /\ pattern[index + 1] = char
    /\ Len(stack) >= n

\* f is the star of the fragment N: a fresh start and end, epsilon from the
\* new start and from N's accept state to N.start and the new end, the other
\* transitions those of N, the new end the sole accept state
IsStarOf(f, N) ==
    \E end \in f.states \ N.states :
        /\ f.start_state \notin N.states
        /\ f.start_state # end
        /\ f.states = N.states \cup {f.start_state, end}
        /\ f.alphabet = N.alphabet
        /\ f.accept_states = {end}
        /\ Dest(f.transitions, f.start_state, EPS) = {N.start_state, end}
        /\ \A q \in N.accept_states :
              Dest(f.transitions, q, EPS) = {N.start_state, end}
        /\ \A q \in N.states \ N.accept_states : \A x \in N.alphabet \cup {EPS} :
              Dest(f.transitions, q, x) = Dest(N.transitions, q, x)
        /\ \A x \in f.alphabet \cup {EPS} : Dest(f.transitions, end, x) = {}

\* C21: the star operator applied to any fragment on the stack succeeds and
\* replaces the fragment by its star: fresh start and end, epsilon from the
\* new start and from the fragment's accept state to the fragment's start and
\* the new end, the new end the sole accept state.
C21_StarSucceeds ==
    [][AtOperator("*", 1)
       => /\ pc' = "thompson"
          /\ error' = ""
          /\ Len(stack') = Len(stack)
          /\ Pop(stack') = Pop(stack)
          /\ IsStarOf(stack'[Len(stack')], stack[Len(stack)])]_vars

(***************************************************************************)
(* The automata and the regex builder together: every operation of the     *)
(* four classes, on caller-built automata and on patterns.                 *)
(***************************************************************************)
InitLifecycle == Init \/ InitRegex

NextLifecycle ==
    \/ \E c \in {"DFA", "NFA", "NFAE"} : Construct(c)
    \/ \E w \in Strings(MaxLen) : ValidateString(w)
    \/ ToNfa
    \/ ToDfaBegin
    \/ ToDfaIteration
    \/ ToDfaEnd
    \/ Continue
    \/ NewRegularExpression
    \/ ThompsonBegin
    \/ ThompsonChar
    \/ ThompsonReject
    \/ ThompsonReturn

SpecLifecycle == InitLifecycle /\ [][NextLifecycle]_vars

\* The number of fragments the branch of `char` pops
Arity(char) == IF char = "*" THEN 1 ELSE IF char \in {"|", "."} THEN 2 ELSE 0

\* C22: once an automaton is constructed, no call on it (validate_string with
\* the closures it computes, to_nfa, to_dfa step by step) changes its states,
\* alphabet, transitions, start state or accept states; and an iteration of
\* the regex builder leaves the fragments it popped, and the fragments that
\* stay on the stack, exactly as they were.
C22_FieldsNeverChange ==
    [][/\ pc \in {"constructed", "returned", "to_dfa"}
          => <<states, alphabet, transitions, start_state, accept_states>>'
               = <<states, alphabet, transitions, start_state, accept_states>>
       /\ (pc = "thompson" /\ index < Len(pattern))
          => LET k == Len(operands')
             IN /\ k <= Len(stack)
                /\ Arity(pattern[index + 1]) <= Len(stack)
                      => k = Arity(pattern[index + 1])
                /\ operands' = SubSeq(stack, Len(stack) - k + 1, Len(stack))
                /\ Len(stack') >= Len(stack) - k
                /\ \A i \in 1..(Len(stack) - k) : stack'[i] = stack[i]]_vars

\* A concatenation has acted: the fragment it pushed has an epsilon entry
\* under the accept state of the first operand, and the operand has none,
\* while a fragment stays on the stack below.
C22_Witness ==
    /\ pc = "thompson"
    /\ Len(operands) = 2
    /\ Len(stack) = 2
    /\ pattern[index] = "."
    /\ LET f == stack[Len(stack)]
           a == First(operands[1].accept_states)
       IN /\ a \in DOMAIN f.transitions
          /\ a \notin DOMAIN operands[1].transitions

\* C23: while the builder runs, every fragment on the operand stack has
\* exactly one accept state, so the accept state an operator picks from a
\* fragment it is about to pop is that fragment's only accept state.
C23_OneAcceptState ==
    pc = "thompson" =>
        /\ \A i \in 1..Len(stack) : Cardinality(stack[i].accept_states) = 1
        /\ \A k \in 1..2 :
              (AtOperator("*", k) \/ AtOperator("|", k) \/ AtOperator(".", k))
              => stack[Len(stack) - k + 1].accept_states
                    = {First(stack[Len(stack) - k + 1].accept_states)}

\* A fragment whose accept state comes from the second operand of a
\* concatenation, about to be popped by an operator
C23_Witness ==
    /\ AtOperator("*", 1)
    /\ index >= 3
    /\ pattern[index] = "."
    /\ stack[Len(stack)].start_state = "q0"
    /\ stack[Len(stack)].accept_states = {"q3"}

\* The fragment f holds every entry of the transition dict of the operand N
Keeps(f, N) ==
    \A q \in DOMAIN N.transitions :
        /\ q \in DOMAIN f.transitions
        /\ f.transitions[q] = N.transitions[q]

\* C25: while the builder runs, in every fragment on the stack the accept
\* state has no outgoing transition, the state sets of two fragments are
\* disjoint, and the fragment an operator builds from the fragments it pops
\* holds every transition of theirs: the entry written under an accept
\* state's key replaces nothing.
C25_MergeKeepsTransitions ==
    pc = "thompson" =>
        /\ \A i \in 1..Len(stack) : \A a \in stack[i].accept_states :
              \A x \in stack[i].alphabet \cup {EPS} :
                  Dest(stack[i].transitions, a, x) = {}
        /\ \A i, j \in 1..Len(stack) :
              i # j => stack[i].states \cap stack[j].states = {}
        /\ AtOperator("*", 1)
              => Keeps(Star(stack[Len(stack)], unique_id), stack[Len(stack)])
        /\ AtOperator("|", 2)
              => LET f == Union(stack[Len(stack) - 1], stack[Len(stack)], unique_id)
                 IN Keeps(f, stack[Len(stack) - 1]) /\ Keeps(f, stack[Len(stack)])
        /\ AtOperator(".", 2)
              => LET f == Concatenation(stack[Len(stack) - 1], stack[Len(stack)])
                 IN Keeps(f, stack[Len(stack) - 1]) /\ Keeps(f, stack[Len(stack)])

\* A union about to merge two fragments that each have transitions of their
\* own under several keys
C25_Witness ==
    /\ AtOperator("|", 2)
    /\ Cardinality(DOMAIN stack[Len(stack)].transitions) >= 2
    /\ Cardinality(DOMAIN stack[Len(stack) - 1].transitions) >= 1

\* C24: for field values that pass the start, accept and transition checks,
\* every state the usage check flags as unused is not reachable from the
\* start state; so arguments whose states are all reachable pass the usage
\* check, and when the unreachable-state error is raised every unreachable
\* state is an accept state or the destination of a transition.
C24_UsageSubsumed ==
    (Validated /\ ReachesUsageCheck) =>
        LET unused == states \ UsedStates(transitions, start_state, accept_states)
            reach == ReachableFrom(transitions, {start_state})
        IN /\ unused \cap reach = {}
           /\ error = "UnusedState" <=> unused # {}
           /\ states \subseteq reach => error # "UnusedState"
           /\ error = "UnreachableState"
                 => \A q \in states \ reach : q \in accept_states \/ IsDestination(q)

\* The unreachable-state error for a state that passed the usage check as
\* the destination of a transition only, next to a reachable state
C24_Witness ==
    /\ Validated
    /\ error = "UnreachableState"
    /\ \E q \in states \ ReachableFrom(transitions, {start_state}) :
          q \notin accept_states /\ IsDestination(q)
    /\ ReachableFrom(transitions, {start_state}) # {start_state}
=============================================================================
